---- MODULE Spec2Model ----
(***************************************************************************)
(* Model of the lua_parser crate: the character-level tokenizer            *)
(* (lexer.rs, lexer/brackets.rs, lexer/comments.rs, lexer/strings.rs) and  *)
(* the syntax-tree wrapper layer (syntax_node.rs, syntax_text.rs).         *)
(*                                                                         *)
(* A text is a sequence of one-character strings.  Every character of the  *)
(* modelled alphabet is one byte wide, so character counts and TextUnit    *)
(* lengths coincide.                                                       *)
(***************************************************************************)
EXTENDS Integers, Sequences, FiniteSets, TLC

\* ------------------------------------------------------------------------
\* Bounds of the explored inputs
\* ------------------------------------------------------------------------
MaxLen == 3
MaxBracketLen == 6
MaxStrLen == 5
MaxLineLen == 5
MaxFairLen == 4

\* ------------------------------------------------------------------------
\* Characters
\* ------------------------------------------------------------------------
NoChar == "EOF"
NoLevel == -1

SP == " "
LF == "\n"
CR == "\r"
DQ == "\""
SQ == "'"
BS == "\\"

Alphabet == {SP, LF, "-", "[", "]", "=", "a", "1", "+", "~", DQ, BS, "$"}
BracketAlphabet == {"[", "]", "=", "x"}
StringAlphabet == {DQ, SQ, BS, "a"}
LineAlphabet == {"-", SP, "1", LF, CR, "["}

SeqsUpTo(S, n) == UNION {[1..k -> S] : k \in 0..n}

\* character classes (lexer/classes.rs)
is_whitespace(c) == c \in {SP, LF, CR, "\t"}
Letters ==
    {"a", "b", "c", "d", "e", "f", "g", "h", "i", "j", "k", "l", "m",
     "n", "o", "p", "q", "r", "s", "t", "u", "v", "w", "x", "y", "z"}
Digits == {"0", "1", "2", "3", "4", "5", "6", "7", "8", "9"}
is_ident_start(c) == c \in Letters \cup {"_"}
is_dec_digit(c) == c \in Digits
is_ident_continue(c) == is_ident_start(c) \/ is_dec_digit(c)

\* SyntaxKind::from_char / from_keyword (syntax_kind/generated.rs)
from_char(c) ==
    CASE c = "-" -> "MINUS"
      [] c = "+" -> "PLUS"
      [] c = "=" -> "EQ"
      [] c = "[" -> "L_BRACKET"
      [] c = "]" -> "R_BRACKET"
      [] OTHER -> "NONE"

from_keyword(s) == IF s = <<"a", "n", "d">> THEN "AND_KW" ELSE "NONE"

\* ------------------------------------------------------------------------
\* Cursor (lexer/cursor.rs): a cursor is the pair (t, l) of the text handed
\* to next_token and the length consumed so far.
\* ------------------------------------------------------------------------
nth(t, l, n) == IF l + n + 1 <= Len(t) THEN t[l + n + 1] ELSE NoChar
current(t, l) == nth(t, l, 0)
matches(t, l, c) == current(t, l) = c
matches_str(t, l, s) == \A i \in 1..Len(s) : nth(t, l, i - 1) = s[i]
\* bump returns None at the end of the text and then leaves the cursor alone
bump_is_none(t, l) == l >= Len(t)
bump(t, l) == IF l < Len(t) THEN l + 1 ELSE l

RECURSIVE bump_n(_, _, _)
bump_n(t, l, n) == IF n = 0 THEN l ELSE bump_n(t, bump(t, l), n - 1)

RECURSIVE bump_while_whitespace(_, _)
bump_while_whitespace(t, l) ==
    IF l < Len(t) /\ is_whitespace(t[l + 1])
    THEN bump_while_whitespace(t, l + 1) ELSE l

RECURSIVE bump_while_ident_continue(_, _)
bump_while_ident_continue(t, l) ==
    IF l < Len(t) /\ is_ident_continue(t[l + 1])
    THEN bump_while_ident_continue(t, l + 1) ELSE l

current_token_text(t, l) == SubSeq(t, 1, l)
into_len(t, l) == l

\* ------------------------------------------------------------------------
\* Long-bracket matcher (lexer/brackets.rs)
\* ------------------------------------------------------------------------
RECURSIVE count_eq(_, _, _)
\* the `while cursor.nth(level + offset) == Some('=')` loop
count_eq(t, l, k) == IF nth(t, l, k) = "=" THEN 1 + count_eq(t, l, k + 1) ELSE 0

match_long_bracket_tail(c, offset, t, l) ==
    LET level == count_eq(t, l, offset)
    IN  IF nth(t, l, level + offset) = c THEN level ELSE NoLevel

\* result: the level found (NoLevel for None) and the cursor afterwards
scan_long_bracket(c, t, l) ==
    IF matches(t, l, c)
    THEN LET level == match_long_bracket_tail(c, 1, t, l)
         IN  IF level # NoLevel
             THEN [level |-> level, len |-> bump_n(t, l, level + 2)]
             ELSE [level |-> NoLevel, len |-> l]
    ELSE [level |-> NoLevel, len |-> l]

\* ------------------------------------------------------------------------
\* Number scanner (lexer/numbers.rs)
\* ------------------------------------------------------------------------
RECURSIVE bump_while_digit(_, _)
bump_while_digit(t, l) ==
    IF l < Len(t) /\ is_dec_digit(t[l + 1])
    THEN bump_while_digit(t, l + 1) ELSE l

scan_number(c, t, l) == [kind |-> "NUMBER", len |-> bump_while_digit(t, l)]

\* ------------------------------------------------------------------------
\* next_token_inner (lexer.rs): c is the first character, already bumped,
\* (t, l) the cursor after it.  The result names the kind, the cursor and
\* where control goes: "return" when the token is complete, otherwise the
\* scanning loop that is entered.
\* ------------------------------------------------------------------------
Ret(kind, l) == [kind |-> kind, len |-> l, pc |-> "return", level |-> NoLevel, quote |-> NoChar]

scan_identifier_or_keyword(c, t, l) ==
    LET l2 == bump_while_ident_continue(t, l)
        kw == from_keyword(current_token_text(t, l2))
    IN  IF kw # "NONE" THEN Ret(kw, l2) ELSE Ret("IDENT", l2)

\* entry of scan_comment (lexer/comments.rs): decides between the block
\* comment loop and bump_until_eol
scan_comment_entry(t, l) ==
    LET open == scan_long_bracket("[", t, l)
    IN  IF open.level # NoLevel
        THEN [kind |-> "COMMENT", len |-> open.len, pc |-> "scan_comment",
              level |-> open.level, quote |-> NoChar]
        ELSE [kind |-> "COMMENT", len |-> l, pc |-> "bump_until_eol",
              level |-> NoLevel, quote |-> NoChar]

\* next_token_inner with '~' always merged into NEQ (no lookahead for '=')
next_token_inner_NoNeqLookahead(c, t, l) ==
    IF is_whitespace(c) THEN Ret("WHITESPACE", bump_while_whitespace(t, l))
    ELSE IF c = "-" /\ matches(t, l, "-") THEN scan_comment_entry(t, bump(t, l))
    ELSE IF c = "[" /\ match_long_bracket_tail("[", 0, t, l) # NoLevel
    THEN LET level == match_long_bracket_tail("[", 0, t, l)
         IN  [kind |-> "STRING", len |-> bump_n(t, l, level + 1),
              pc |-> "scan_long_string", level |-> level, quote |-> NoChar]
    ELSE IF is_ident_start(c) THEN scan_identifier_or_keyword(c, t, l)
    ELSE IF is_dec_digit(c)
    THEN LET n == scan_number(c, t, l) IN Ret(n.kind, n.len)
    ELSE IF from_char(c) # "NONE" THEN Ret(from_char(c), l)
    ELSE IF c = "~" THEN Ret("NEQ", bump(t, l))
    ELSE IF c \in {DQ, SQ}
    THEN [kind |-> "STRING", len |-> l, pc |-> "scan_string",
          level |-> NoLevel, quote |-> c]
    ELSE Ret("ERROR", l)

\* next_token_inner with every '-' starting a comment (no lookahead for '-')
next_token_inner_NoDashLookahead(c, t, l) ==
    IF is_whitespace(c) THEN Ret("WHITESPACE", bump_while_whitespace(t, l))
    ELSE IF c = "-" THEN scan_comment_entry(t, bump(t, l))
    ELSE IF c = "[" /\ match_long_bracket_tail("[", 0, t, l) # NoLevel
    THEN LET level == match_long_bracket_tail("[", 0, t, l)
         IN  [kind |-> "STRING", len |-> bump_n(t, l, level + 1),
              pc |-> "scan_long_string", level |-> level, quote |-> NoChar]
    ELSE IF is_ident_start(c) THEN scan_identifier_or_keyword(c, t, l)
    ELSE IF is_dec_digit(c)
    THEN LET n == scan_number(c, t, l) IN Ret(n.kind, n.len)
    ELSE IF from_char(c) # "NONE" THEN Ret(from_char(c), l)
    ELSE IF c = "~" /\ matches(t, l, "=") THEN Ret("NEQ", bump(t, l))
    ELSE IF c \in {DQ, SQ}
    THEN [kind |-> "STRING", len |-> l, pc |-> "scan_string",
          level |-> NoLevel, quote |-> c]
    ELSE Ret("ERROR", l)

next_token_inner(c, t, l) ==
    IF is_whitespace(c) THEN Ret("WHITESPACE", bump_while_whitespace(t, l))
    ELSE IF c = "-" /\ matches(t, l, "-") THEN scan_comment_entry(t, bump(t, l))
    ELSE IF c = "[" /\ match_long_bracket_tail("[", 0, t, l) # NoLevel
    THEN LET level == match_long_bracket_tail("[", 0, t, l)
         IN  [kind |-> "STRING", len |-> bump_n(t, l, level + 1),
              pc |-> "scan_long_string", level |-> level, quote |-> NoChar]
    ELSE IF is_ident_start(c) THEN scan_identifier_or_keyword(c, t, l)
    ELSE IF is_dec_digit(c)
    THEN LET n == scan_number(c, t, l) IN Ret(n.kind, n.len)
    ELSE IF from_char(c) # "NONE" THEN Ret(from_char(c), l)
    ELSE IF c = "~" /\ matches(t, l, "=") THEN Ret("NEQ", bump(t, l))
    ELSE IF c \in {DQ, SQ}
    THEN [kind |-> "STRING", len |-> l, pc |-> "scan_string",
          level |-> NoLevel, quote |-> c]
    ELSE Ret("ERROR", l)

\* ------------------------------------------------------------------------
\* State of tokenize (lexer.rs) and of the next_token call in progress
\* ------------------------------------------------------------------------
VARIABLES
    input,       \* the text passed to tokenize
    text,        \* tokenize's `text`: the part not yet tokenized
    result,      \* tokenize's `result`
    pc,          \* "tokenize", a scanning loop, or "done"
    len,         \* the cursor's consumed length inside next_token
    level,       \* level of the long bracket being scanned
    quote_type   \* scan_string's quote_type

lexvars == <<input, text, result, pc, len, level, quote_type>>

\* State of a SyntaxTreeBuilder (syntax_node.rs) and of the tree it returns
VARIABLES
    b_parents,   \* inner builder: the open nodes, (kind, first_child) each
    b_children,  \* inner builder: the finished elements not yet in a node
    b_errors,    \* SyntaxTreeBuilder.errors
    root,        \* the root returned by finish(), NoRoot before
    token_calls, \* history: the texts passed to token(), in call order
    error_calls, \* history: the (message, offset) pairs passed to error()
    calls        \* history: the number of builder calls made

treevars == <<b_parents, b_children, b_errors, root, token_calls, error_calls, calls>>

\* State of the calls made on a SyntaxText (syntax_text.rs) and on a
\* Location (syntax_error.rs)
VARIABLES
    stext,       \* the SyntaxText the next call is made on
    stext_out,   \* the outcome of the last SyntaxText call
    loc_call,    \* the receiver and the arguments of add_offset
    loc_out      \* the outcome of add_offset

auxvars == <<stext, stext_out, loc_call, loc_out>>

vars == <<lexvars, treevars, auxvars>>

Token(kind, l) == [kind |-> kind, len |-> l]

BracketInputs ==
    {p \o b : p \in {<<"[">>, <<"-", "-", "[">>}, b \in SeqsUpTo(BracketAlphabet, MaxBracketLen)}

\* the scenarios of the specification's testable properties
LongStringExample ==
    <<"[", "=", "=", "[", " ", "f", "o", "o", " ", "]", "=", "]", " ", "s", "t",
      "i", "l", "l", "-", "o", "p", "e", "n", " ", "]", "=", "=", "]">>
UnterminatedExample ==
    <<"[", "[", " ", "u", "n", "t", "e", "r", "m", "i", "n", "a", "t", "e", "d">>
BlockCommentExample ==
    <<"-", "-", "[", "=", "=", "[", " ", "c", "o", "m", "m", "e", "n", "t", " ",
      "]", "=", "=", "]">>
OverlapCommentExample ==
    <<"-", "-", "[", "=", "=", "[", " ", "x", " ", "]", "=", "]", "=", "=", "]">>
EscapedQuoteExample == <<DQ, "a", BS, DQ, "b", DQ>>
EscapedBackslashExample == <<DQ, "a", BS, BS, DQ>>
MinusExample == <<"-", " ", "-", " ", "1">>

ExampleInputs ==
    {LongStringExample, UnterminatedExample, BlockCommentExample,
     OverlapCommentExample, EscapedQuoteExample, EscapedBackslashExample,
     MinusExample}

Inputs ==
    SeqsUpTo(Alphabet, MaxLen) \cup BracketInputs
        \cup SeqsUpTo(StringAlphabet, MaxStrLen) \cup SeqsUpTo(LineAlphabet, MaxLineLen)
        \cup ExampleInputs

\* the inputs explored by the termination properties
FairInputs ==
    {p \o b : p \in {<<"[">>, <<"-", "-", "[">>}, b \in SeqsUpTo(BracketAlphabet, MaxFairLen)}
        \cup SeqsUpTo(StringAlphabet, MaxFairLen) \cup ExampleInputs

\* no root yet: finish() has not been called
NoRoot ==
    [green |-> [is_token |-> FALSE, kind |-> "NONE", text |-> <<>>, children |-> <<>>],
     data |-> <<>>]

\* no SyntaxText or Location call is in progress
AuxIdle ==
    /\ stext = "idle"
    /\ stext_out = "idle"
    /\ loc_call = "idle"
    /\ loc_out = "idle"

\* SyntaxTreeBuilder::default()
BuilderDefault ==
    /\ b_parents = <<>>
    /\ b_children = <<>>
    /\ b_errors = <<>>
    /\ root = NoRoot
    /\ token_calls = <<>>
    /\ error_calls = <<>>
    /\ calls = 0

InitWith(inputs) ==
    /\ BuilderDefault
    /\ AuxIdle
    /\ input \in inputs
    /\ text = input
    /\ result = <<>>
    /\ pc = "tokenize"
    /\ len = 0
    /\ level = NoLevel
    /\ quote_type = NoChar

Init == InitWith(Inputs)
FairInit == InitWith(FairInputs)

\* PushToken with tokenize slicing one character too far
PushToken_SliceOffByOne(kind, l) ==
    /\ result' = Append(result, Token(kind, into_len(text, l)))
    /\ text' = SubSeq(text, into_len(text, l) + 2, Len(text))
    /\ pc' = "tokenize"
    /\ len' = 0
    /\ level' = NoLevel
    /\ quote_type' = NoChar
    /\ UNCHANGED input

\* next_token returns Token{kind, len}; tokenize pushes it and advances text
PushToken(kind, l) ==
    /\ result' = Append(result, Token(kind, into_len(text, l)))
    /\ text' = SubSeq(text, into_len(text, l) + 1, Len(text))
    /\ pc' = "tokenize"
    /\ len' = 0
    /\ level' = NoLevel
    /\ quote_type' = NoChar
    /\ UNCHANGED input

\* one iteration of tokenize's loop up to the point where next_token_inner
\* returns or enters a scanning loop
Tokenize ==
    /\ UNCHANGED <<treevars, auxvars>>
    /\ pc = "tokenize"
    /\ text # <<>>
    /\ LET c == text[1]
           r == next_token_inner(c, text, bump(text, 0))
       IN  IF r.pc = "return"
           THEN PushToken(r.kind, r.len)
           ELSE /\ pc' = r.pc
                /\ len' = r.len
                /\ level' = r.level
                /\ quote_type' = r.quote
                /\ UNCHANGED <<input, text, result>>

\* tokenize leaves its loop
TokenizeReturn ==
    /\ UNCHANGED <<treevars, auxvars>>
    /\ pc = "tokenize"
    /\ text = <<>>
    /\ pc' = "done"
    /\ UNCHANGED <<input, text, result, len, level, quote_type>>

\* ScanString with a backslash escaping only a backslash, not the quote
ScanString_NoQuoteEscape ==
    /\ UNCHANGED <<treevars, auxvars>>
    /\ pc = "scan_string"
    /\ LET c == current(text, len)
       IN  IF c = NoChar THEN PushToken("STRING", len)
           ELSE IF c = BS
           THEN LET l1 == bump(text, len)
                IN  /\ len' = IF matches(text, l1, BS)
                              THEN bump(text, l1) ELSE l1
                    /\ UNCHANGED <<input, text, result, pc, level, quote_type>>
           ELSE IF c = quote_type THEN PushToken("STRING", bump(text, len))
           ELSE /\ len' = bump(text, len)
                /\ UNCHANGED <<input, text, result, pc, level, quote_type>>

\* one iteration of scan_string's loop (lexer/strings.rs)
ScanString ==
    /\ UNCHANGED <<treevars, auxvars>>
    /\ pc = "scan_string"
    /\ LET c == current(text, len)
       IN  IF c = NoChar THEN PushToken("STRING", len)
           ELSE IF c = BS
           THEN LET l1 == bump(text, len)
                IN  /\ len' = IF matches(text, l1, BS) \/ matches(text, l1, quote_type)
                              THEN bump(text, l1) ELSE l1
                    /\ UNCHANGED <<input, text, result, pc, level, quote_type>>
           ELSE IF c = quote_type THEN PushToken("STRING", bump(text, len))
           ELSE /\ len' = bump(text, len)
                /\ UNCHANGED <<input, text, result, pc, level, quote_type>>

\* the loop condition of scan_long_string (lexer/strings.rs): the probe for
\* a closer, which consumes the closer it finds; the level is not compared
ScanLongString ==
    /\ UNCHANGED <<treevars, auxvars>>
    /\ pc = "scan_long_string"
    /\ LET close == scan_long_bracket("]", text, len)
       IN  IF close.level = NoLevel
           THEN /\ pc' = "scan_long_string_bump"
                /\ UNCHANGED <<input, text, result, len, level, quote_type>>
           ELSE PushToken("STRING", close.len)

\* the loop body of scan_long_string: cursor.bump(), its result ignored
ScanLongStringBump ==
    /\ UNCHANGED <<treevars, auxvars>>
    /\ pc = "scan_long_string_bump"
    /\ len' = bump(text, len)
    /\ pc' = "scan_long_string"
    /\ UNCHANGED <<input, text, result, level, quote_type>>

\* ScanComment without the exit at the end of input
ScanComment_NoEofBreak ==
    /\ UNCHANGED <<treevars, auxvars>>
    /\ pc = "scan_comment"
    /\ LET close == scan_long_bracket("]", text, len)
       IN  IF close.level = level THEN PushToken("COMMENT", close.len)
           ELSE /\ len' = bump(text, close.len)
                /\ UNCHANGED <<input, text, result, pc, level, quote_type>>

\* one iteration of the block comment loop of scan_comment
ScanComment ==
    /\ UNCHANGED <<treevars, auxvars>>
    /\ pc = "scan_comment"
    /\ LET close == scan_long_bracket("]", text, len)
       IN  IF close.level = level THEN PushToken("COMMENT", close.len)
           ELSE IF bump_is_none(text, close.len) THEN PushToken("COMMENT", close.len)
           ELSE /\ len' = bump(text, close.len)
                /\ UNCHANGED <<input, text, result, pc, level, quote_type>>

\* BumpUntilEol that stops at LF only and so swallows the CR of CR LF
BumpUntilEol_NoCrLf ==
    /\ UNCHANGED <<treevars, auxvars>>
    /\ pc = "bump_until_eol"
    /\ IF matches(text, len, LF)
       THEN PushToken("COMMENT", len)
       ELSE IF bump_is_none(text, len) THEN PushToken("COMMENT", len)
       ELSE /\ len' = bump(text, len)
            /\ UNCHANGED <<input, text, result, pc, level, quote_type>>

\* one iteration of bump_until_eol's loop (lexer/comments.rs)
BumpUntilEol ==
    /\ UNCHANGED <<treevars, auxvars>>
    /\ pc = "bump_until_eol"
    /\ IF matches(text, len, LF) \/ matches_str(text, len, <<CR, LF>>)
       THEN PushToken("COMMENT", len)
       ELSE IF bump_is_none(text, len) THEN PushToken("COMMENT", len)
       ELSE /\ len' = bump(text, len)
            /\ UNCHANGED <<input, text, result, pc, level, quote_type>>

Next ==
    \/ Tokenize
    \/ TokenizeReturn
    \/ ScanString
    \/ ScanLongString
    \/ ScanLongStringBump
    \/ ScanComment
    \/ BumpUntilEol

Spec == Init /\ [][Next]_vars

\* tokenize is a sequential loop: a step that can be taken is taken
FairSpec == FairInit /\ [][Next]_vars /\ WF_vars(Next)

TypeOK ==
    /\ pc \in {"tokenize", "scan_string", "scan_long_string", "scan_long_string_bump", "scan_comment",
               "bump_until_eol", "done"}
    /\ len \in 0..Len(text)

\* ------------------------------------------------------------------------
\* The syntax tree.  A green element is a token (kind, text) or a node
\* (kind, children); the red layer adds the offset of every element.
\* ------------------------------------------------------------------------
MaxCalls == 6
MaxDepth == 2
MaxErrors == 2
MaxOffset == 2

NodeKinds == {"CHUNK", "BLOCK"}
TokenKinds == {"IDENT"}
TokenTexts == {<<>>, <<"a">>, <<"b", "c">>}
Messages == {"m1", "m2"}

GreenToken(kind, txt) == [is_token |-> TRUE, kind |-> kind, text |-> txt, children |-> <<>>]
GreenNode(kind, children) == [is_token |-> FALSE, kind |-> kind, text |-> <<>>, children |-> children]

RECURSIVE text_len(_)
RECURSIVE text_len_all(_)
\* GreenNode::text_len / TextUnit::of_str(token.text())
text_len(el) == IF el.is_token THEN Len(el.text) ELSE text_len_all(el.children)
text_len_all(els) == IF els = <<>> THEN 0 ELSE text_len(Head(els)) + text_len_all(Tail(els))

TextRange(start, end) == [start |-> start, end |-> end]
NoRange == [start |-> -1, end |-> -1]
range_len(r) == r.end - r.start

\* TextRange::intersection: touching ranges intersect in an empty range
intersection(r1, r2) ==
    LET start == IF r1.start >= r2.start THEN r1.start ELSE r2.start
        end == IF r1.end <= r2.end THEN r1.end ELSE r2.end
    IN  IF start <= end THEN TextRange(start, end) ELSE NoRange

\* a red element: a green element placed at an offset
Red(el, offset) == [green |-> el, range |-> TextRange(offset, offset + text_len(el))]

RECURSIVE preorder_from(_, _)
RECURSIVE preorder_all(_, _)
\* the Enter events of preorder_with_tokens below a red element
preorder_from(el, offset) ==
    <<Red(el, offset)>> \o (IF el.is_token THEN <<>> ELSE preorder_all(el.children, offset))
preorder_all(els, offset) ==
    IF els = <<>> THEN <<>>
    ELSE preorder_from(Head(els), offset)
             \o preorder_all(Tail(els), offset + text_len(Head(els)))

\* SyntaxNode::descendants_with_tokens
descendants_with_tokens(node) == preorder_from(node.green, node.range.start)

\* SyntaxNode::children_with_tokens
RECURSIVE children_from(_, _)
children_from(els, offset) ==
    IF els = <<>> THEN <<>>
    ELSE <<Red(Head(els), offset)>> \o children_from(Tail(els), offset + text_len(Head(els)))
children_with_tokens(node) == children_from(node.green.children, node.range.start)

\* SyntaxText::new / SyntaxNode::text
SyntaxText_new(node) == [node |-> node, range |-> node.range]

RECURSIVE chunks_of(_, _)
\* the filter_map of SyntaxText::chunks over a sequence of red elements
chunks_of(els, range) ==
    IF els = <<>> THEN <<>>
    ELSE LET t == Head(els)
             r == intersection(range, t.range)
         IN  (IF t.green.is_token /\ r # NoRange
              THEN <<SubSeq(t.green.text, r.start - t.range.start + 1, r.end - t.range.start)>>
              ELSE <<>>)
             \o chunks_of(Tail(els), range)

\* chunks that looks at the direct children of the node only
chunks_DirectChildrenOnly(st) == chunks_of(children_with_tokens(st.node), st.range)

\* SyntaxText::chunks
chunks(st) == chunks_of(descendants_with_tokens(st.node), st.range)

RECURSIVE Concat(_)
Concat(ss) == IF ss = <<>> THEN <<>> ELSE Head(ss) \o Concat(Tail(ss))

\* SyntaxText::to_string and SyntaxText::len
to_string(st) == Concat(chunks(st))
SyntaxText_len(st) == range_len(st.range)

\* SyntaxNode::new: the root of a tree, with the diagnostics as root data
\* (None, read back as the empty slice, when there are none)
SyntaxNode_new(green, errors) == [green |-> green, data |-> errors]
RootNode(r) == Red(r.green, 0)

\* SyntaxNode::root_data: the diagnostics stored on the root
root_data(r) == r.data

SyntaxError_new(kind, offset) == [kind |-> kind, location |-> [offset |-> offset]]

\* ------------------------------------------------------------------------
\* Typed AST views (ast.rs, ast/generated.rs)
\* ------------------------------------------------------------------------
AstTypes == {"Chunk", "Block"}

\* the kinds each AST type accepts
AcceptedKinds(T) == IF T = "Chunk" THEN {"CHUNK"} ELSE {"BLOCK"}

NoAst == [some |-> FALSE, type |-> "NONE", syntax |-> Red(NoRoot.green, 0)]

\* AstNode::cast and AstNode::syntax
cast(T, node) ==
    IF node.green.kind \in AcceptedKinds(T)
    THEN [some |-> TRUE, type |-> T, syntax |-> node]
    ELSE NoAst
syntax(ast) == ast.syntax

\* SyntaxNode::children: the child nodes, tokens left out
children(node) == SelectSeq(children_with_tokens(node), LAMBDA el : ~el.green.is_token)

\* AstChildren::next with next().and_then(cast) in place of find_map(cast)
AstChildren_next_FirstOnly(T, inner) ==
    IF inner = <<>> THEN [item |-> NoAst, inner |-> <<>>]
    ELSE [item |-> cast(T, Head(inner)), inner |-> Tail(inner)]

RECURSIVE AstChildren_next(_, _)
\* AstChildren::next: inner.by_ref().find_map(N::cast); the result is the
\* item (NoAst for None) and the iterator afterwards
AstChildren_next(T, inner) ==
    IF inner = <<>> THEN [item |-> NoAst, inner |-> <<>>]
    ELSE IF cast(T, Head(inner)).some
    THEN [item |-> cast(T, Head(inner)), inner |-> Tail(inner)]
    ELSE AstChildren_next(T, Tail(inner))

RECURSIVE AstChildren_drain(_, _)
\* the items an AstChildren iterator yields until it returns None
AstChildren_drain(T, inner) ==
    LET n == AstChildren_next(T, inner)
    IN  IF n.item.some THEN <<n.item>> \o AstChildren_drain(T, n.inner) ELSE <<>>

\* AstChildren::new and iteration: the typed children of a parent
ast_children(T, parent) == AstChildren_drain(T, children(parent))

\* the nodes of a finished tree
NodesOf(r) == {el \in {descendants_with_tokens(RootNode(r))[i] :
                         i \in 1..Len(descendants_with_tokens(RootNode(r)))} :
                  ~el.green.is_token}

\* ------------------------------------------------------------------------
\* SyntaxNode::debug_dump (syntax_node.rs) and Chunk::errors (lib.rs).  A
\* node is handled together with its ancestors() chain, itself first.
\* ------------------------------------------------------------------------
RECURSIVE NodePaths(_, _, _)
RECURSIVE NodePathsAll(_, _, _)
\* every node at or below el, each with its ancestors()
NodePaths(el, offset, above) ==
    IF el.is_token THEN {}
    ELSE {[node |-> Red(el, offset), ancestors |-> <<Red(el, offset)>> \o above]}
             \cup NodePathsAll(el.children, offset, <<Red(el, offset)>> \o above)
NodePathsAll(els, offset, above) ==
    IF els = <<>> THEN {}
    ELSE NodePaths(Head(els), offset, above)
             \cup NodePathsAll(Tail(els), offset + text_len(Head(els)), above)

\* the nodes of a finished tree with their ancestors
ancestors(r) == NodePaths(r.green, 0, <<>>)

\* Chunk::errors: the body that read root_data is commented out
Chunk_errors(chunk) == <<>>

\* Location::offset of a diagnostic
offset_of(e) == e.location.offset

RECURSIVE insert_by_key(_, _)
RECURSIVE sort_by_key(_)
\* Vec::sort_by_key(|e| e.location().offset()): a stable sort
insert_by_key(sorted, e) ==
    IF sorted = <<>> THEN <<e>>
    ELSE IF offset_of(Head(sorted)) <= offset_of(e)
    THEN <<Head(sorted)>> \o insert_by_key(Tail(sorted), e)
    ELSE <<e>> \o sorted
sort_by_key(errors) ==
    IF errors = <<>> THEN <<>>
    ELSE insert_by_key(sort_by_key(SubSeq(errors, 1, Len(errors) - 1)), errors[Len(errors)])

\* the errors debug_dump works on: ancestors().find_map(Chunk::cast), then
\* Chunk::errors or root_data, sorted by offset
dump_errors(r, path) ==
    sort_by_key(IF AstChildren_next("Chunk", path.ancestors).item.some
                THEN Chunk_errors(AstChildren_next("Chunk", path.ancestors).item)
                ELSE root_data(r))

NodeLine(el, indent) == [line |-> "node", indent |-> indent, kind |-> el.green.kind,
                        range |-> el.range, error |-> SyntaxError_new("", 0)]
TokenLine(el, indent) == [line |-> "token", indent |-> indent, kind |-> el.green.kind,
                         range |-> el.range, error |-> SyntaxError_new("", 0)]
ErrLine(e, indent) == [line |-> "err", indent |-> indent, kind |-> "",
                      range |-> NoRange, error |-> e]

RECURSIVE err_lines(_, _, _, _)
\* the while loop after a token: the errors from err_pos on with offset <= off
err_lines(errors, err_pos, off, indent) ==
    IF err_pos < Len(errors) /\ offset_of(errors[err_pos + 1]) <= off
    THEN <<ErrLine(errors[err_pos + 1], indent)>> \o err_lines(errors, err_pos + 1, off, indent)
    ELSE <<>>

RECURSIVE dump_from(_, _, _, _, _)
RECURSIVE dump_all(_, _, _, _, _)
\* the preorder walk of debug_dump below one element; err_pos is the number
\* of errors printed before it
dump_from(el, offset, indent, errors, err_pos) ==
    IF el.is_token
    THEN <<TokenLine(Red(el, offset), indent)>>
             \o err_lines(errors, err_pos, Red(el, offset).range.end, indent)
    ELSE <<NodeLine(Red(el, offset), indent)>>
             \o dump_all(el.children, offset, indent + 1, errors, err_pos)
dump_all(els, offset, indent, errors, err_pos) ==
    IF els = <<>> THEN <<>>
    ELSE LET first == dump_from(Head(els), offset, indent, errors, err_pos)
             printed == Len(SelectSeq(first, LAMBDA l : l.line = "err"))
         IN  first \o dump_all(Tail(els), offset + text_len(Head(els)), indent,
                               errors, err_pos + printed)

\* the errors left after the walk, printed without indentation
rest_lines(errors, err_pos) ==
    [i \in 1..(Len(errors) - err_pos) |-> ErrLine(errors[err_pos + i], 0)]

\* SyntaxNode::debug_dump: the lines of the dump
debug_dump_lines(path, errors) ==
    LET walk == dump_from(path.node.green, path.node.range.start, 0, errors, 0)
    IN  walk \o rest_lines(errors, Len(SelectSeq(walk, LAMBDA l : l.line = "err")))
debug_dump(r, path) == debug_dump_lines(path, dump_errors(r, path))

\* ------------------------------------------------------------------------
\* SyntaxTreeBuilder: every call forwards to the inner GreenNodeBuilder
\* ------------------------------------------------------------------------
Building == root = NoRoot
Depth == Len(b_parents)

InitTree ==
    /\ BuilderDefault
    /\ AuxIdle
    /\ input = <<>>
    /\ text = <<>>
    /\ result = <<>>
    /\ pc = "done"
    /\ len = 0
    /\ level = NoLevel
    /\ quote_type = NoChar

start_node(kind) ==
    /\ Building
    /\ calls < MaxCalls
    /\ Depth < MaxDepth
    /\ b_parents' = Append(b_parents, [kind |-> kind, first_child |-> Len(b_children)])
    /\ calls' = calls + 1
    /\ UNCHANGED <<b_children, b_errors, root, token_calls, error_calls, lexvars, auxvars>>

\* token calls are made inside an open node only
token(kind, txt) ==
    /\ Building
    /\ calls < MaxCalls
    /\ Depth > 0
    /\ b_children' = Append(b_children, GreenToken(kind, txt))
    /\ token_calls' = Append(token_calls, txt)
    /\ calls' = calls + 1
    /\ UNCHANGED <<b_parents, b_errors, root, error_calls, lexvars, auxvars>>

finish_node ==
    /\ Building
    /\ calls < MaxCalls
    /\ Depth > 0
    /\ LET top == b_parents[Len(b_parents)]
           kids == SubSeq(b_children, top.first_child + 1, Len(b_children))
       IN  /\ b_parents' = SubSeq(b_parents, 1, Len(b_parents) - 1)
           /\ b_children' = Append(SubSeq(b_children, 1, top.first_child),
                                   GreenNode(top.kind, kids))
    /\ calls' = calls + 1
    /\ UNCHANGED <<b_errors, root, token_calls, error_calls, lexvars, auxvars>>

\* error() that keeps the latest diagnostic only
error_ReplacesList(message, text_pos) ==
    /\ Building
    /\ calls < MaxCalls
    /\ Len(b_errors) < MaxErrors
    /\ b_errors' = <<SyntaxError_new(message, text_pos)>>
    /\ error_calls' = Append(error_calls, [message |-> message, offset |-> text_pos])
    /\ calls' = calls + 1
    /\ UNCHANGED <<b_parents, b_children, root, token_calls, lexvars, auxvars>>

error(message, text_pos) ==
    /\ Building
    /\ calls < MaxCalls
    /\ Len(b_errors) < MaxErrors
    /\ b_errors' = Append(b_errors, SyntaxError_new(message, text_pos))
    /\ error_calls' = Append(error_calls, [message |-> message, offset |-> text_pos])
    /\ calls' = calls + 1
    /\ UNCHANGED <<b_parents, b_children, root, token_calls, lexvars, auxvars>>

\* finish_raw and SyntaxNode::new; the inner finish() asserts that exactly
\* one element, a node, is left
finish ==
    /\ Building
    /\ Depth = 0
    /\ Len(b_children) = 1
    /\ ~b_children[1].is_token
    /\ root' = SyntaxNode_new(b_children[1], b_errors)
    /\ UNCHANGED <<b_parents, b_children, b_errors, token_calls, error_calls, calls, lexvars, auxvars>>

StartNode == \E kind \in NodeKinds : start_node(kind)
TokenCall == \E kind \in TokenKinds, txt \in TokenTexts : token(kind, txt)
FinishNode == finish_node
ErrorCall == \E message \in Messages, text_pos \in 0..MaxOffset : error(message, text_pos)
Finish == finish

NextTree ==
    \/ StartNode
    \/ TokenCall
    \/ FinishNode
    \/ ErrorCall
    \/ Finish

SpecTree == InitTree /\ [][NextTree]_vars

\* ------------------------------------------------------------------------
\* Location::add_offset (syntax_error.rs).  TextUnit is a u32: an addition
\* or subtraction that leaves 0..2^32-1 panics in a build with overflow
\* checks and wraps around in a build without them.
\* ------------------------------------------------------------------------
EdgeWidth == 2

\* A number is kept as two 16-bit halves, hi * 2^16 + lo with lo in
\* 0..2^16-1; it is a u32 exactly when hi is in 0..2^16-1.  The sums and
\* differences below are exact: hi leaves that range instead of wrapping.
Half == 2 ^ 16
Num(hi, lo) == [hi |-> hi + (lo \div Half), lo |-> lo % Half]
Plus(a, b) == Num(a.hi + b.hi, a.lo + b.lo)
Minus(a, b) == Num(a.hi - b.hi, a.lo - b.lo)
Leq(a, b) == a.hi < b.hi \/ (a.hi = b.hi /\ a.lo <= b.lo)
IsU32(a) == a.hi \in 0..(Half - 1)
Wrap(a) == [hi |-> a.hi % Half, lo |-> a.lo]
Zero == Num(0, 0)
U32Max == Num(Half - 1, Half - 1)

\* the values next to both ends of the u32 range
EdgeValues ==
    {Num(0, k) : k \in 0..EdgeWidth} \cup {Minus(U32Max, Num(0, k)) : k \in 0..EdgeWidth}
Builds == {"overflow-checks", "wrapping"}

Panic == [hi |-> -1, lo |-> -1]
\* TextUnit + TextUnit and TextUnit - TextUnit
u32_add(build, a, b) ==
    IF a = Panic \/ b = Panic THEN Panic
    ELSE IF IsU32(Plus(a, b)) THEN Plus(a, b)
    ELSE IF build = "wrapping" THEN Wrap(Plus(a, b)) ELSE Panic
u32_sub(build, a, b) ==
    IF a = Panic \/ b = Panic THEN Panic
    ELSE IF IsU32(Minus(a, b)) THEN Minus(a, b)
    ELSE IF build = "wrapping" THEN Wrap(Minus(a, b)) ELSE Panic

Offset(n) == [tag |-> "Offset", start |-> n, end |-> n]
Range(s, e) == [tag |-> "Range", start |-> s, end |-> e]
LocPanic == [tag |-> "panic", start |-> Zero, end |-> Zero]
NoLocation == [tag |-> "none", start |-> Zero, end |-> Zero]

\* TextRange::from_to asserts start <= end
from_to(s, e) == IF s = Panic \/ e = Panic \/ ~Leq(s, e) THEN LocPanic ELSE Range(s, e)
\* TextRange + TextUnit and TextRange - TextUnit shift both ends
range_add(build, r, d) ==
    IF r = LocPanic THEN LocPanic
    ELSE from_to(u32_add(build, r.start, d), u32_add(build, r.end, d))
range_sub(build, r, d) ==
    IF r = LocPanic THEN LocPanic
    ELSE from_to(u32_sub(build, r.start, d), u32_sub(build, r.end, d))

\* add_offset whose Range arm forgets the minus offset
add_offset_RangeIgnoresMinus(build, loc, plus_offset, minus_offset) ==
    IF loc.tag = "Range"
    THEN range_add(build, loc, plus_offset)
    ELSE LET r == u32_sub(build, u32_add(build, loc.start, plus_offset), minus_offset)
         IN  IF r = Panic THEN LocPanic ELSE Offset(r)

add_offset(build, loc, plus_offset, minus_offset) ==
    IF loc.tag = "Range"
    THEN range_sub(build, range_add(build, loc, plus_offset), minus_offset)
    ELSE LET r == u32_sub(build, u32_add(build, loc.start, plus_offset), minus_offset)
         IN  IF r = Panic THEN LocPanic ELSE Offset(r)

Locations ==
    {Offset(n) : n \in EdgeValues}
        \cup {Range(r[1], r[2]) : r \in {q \in EdgeValues \X EdgeValues : Leq(q[1], q[2])}}

IdleOutside ==
    /\ BuilderDefault
    /\ input = <<>>
    /\ text = <<>>
    /\ result = <<>>
    /\ pc = "done"
    /\ len = 0
    /\ level = NoLevel
    /\ quote_type = NoChar

InitOffset ==
    /\ IdleOutside
    /\ stext = "idle"
    /\ stext_out = "idle"
    /\ loc_call \in [build : Builds, loc : Locations, plus : EdgeValues, minus : EdgeValues]
    /\ loc_out = NoLocation

AddOffset ==
    /\ loc_out = NoLocation
    /\ loc_out' = add_offset(loc_call.build, loc_call.loc, loc_call.plus, loc_call.minus)
    /\ UNCHANGED <<loc_call, stext, stext_out, lexvars, treevars>>

NextOffset == AddOffset

SpecOffset == InitOffset /\ [][NextOffset]_vars

\* ------------------------------------------------------------------------
\* SyntaxText::slice and SyntaxText::find (syntax_text.rs) on the text of a
\* node of a small tree.  The receiver of every call is stext; a slice
\* that succeeds replaces it by the sliced text, a slice that panics ends
\* the run.  stext_out records the last call, the receiver's range at the
\* call and the outcome.
\* ------------------------------------------------------------------------
MaxTextOffset == 5

SliceTexts == {<<>>, <<"a">>, <<"b">>}
FindChars == {"a", "b", "z"}

\* CHUNK [ t1, BLOCK [ t2, t3 ], t4 ]
TextTrees ==
    {GreenNode("CHUNK", <<GreenToken("IDENT", t[1]),
                          GreenNode("BLOCK", <<GreenToken("IDENT", t[2]),
                                               GreenToken("IDENT", t[3])>>),
                          GreenToken("IDENT", t[4])>>) :
        t \in {<<>>, <<"a">>} \X {<<"a">>, <<"b">>} \X SliceTexts \X {<<>>, <<"b">>}}

PanicRange == [start |-> -2, end |-> -2]

\* TextRange::from_to asserts start <= end
TextRange_from_to(start, end) == IF start <= end THEN TextRange(start, end) ELSE PanicRange
\* TextRange::contains_inclusive
contains_inclusive(range, offset) == range.start <= offset /\ offset <= range.end

\* SyntaxTextSlice::restrict for TextRange, RangeTo, RangeFrom and Range;
\* NoRange is None
restrict_TextRange(self, range) == intersection(self, range)
restrict_RangeTo(end, range) ==
    IF ~contains_inclusive(range, end) THEN NoRange
    ELSE TextRange_from_to(range.start, end)
restrict_RangeFrom(start, range) ==
    IF ~contains_inclusive(range, start) THEN NoRange
    ELSE TextRange_from_to(start, range.end)
restrict_Range(start, end, range) ==
    IF TextRange_from_to(start, end) = PanicRange THEN PanicRange
    ELSE restrict_TextRange(TextRange_from_to(start, end), range)

SliceForms == {"TextRange", "Range", "RangeFrom", "RangeTo"}
restrict(form, a, b, range) ==
    CASE form = "TextRange" -> restrict_TextRange(TextRange(a, b), range)
      [] form = "Range" -> restrict_Range(a, b, range)
      [] form = "RangeFrom" -> restrict_RangeFrom(a, range)
      [] form = "RangeTo" -> restrict_RangeTo(b, range)

\* SyntaxText::slice: panics when restrict gives None (or from_to asserts)
slice(self, form, a, b) ==
    LET range == restrict(form, a, b, self.range)
    IN  IF range = NoRange \/ range = PanicRange
        THEN [panic |-> TRUE, text |-> self]
        ELSE [panic |-> FALSE, text |-> [node |-> self.node, range |-> range]]

\* str::find: the index of the first c in chunk, -1 for None
str_find(chunk, c) ==
    IF \E i \in 1..Len(chunk) : chunk[i] = c
    THEN (CHOOSE i \in 1..Len(chunk) :
              chunk[i] = c /\ \A j \in 1..(i - 1) : chunk[j] # c) - 1
    ELSE -1

RECURSIVE find_loop(_, _, _)
\* the loop of SyntaxText::find over the chunks, acc starting at 0
find_loop(cs, c, acc) ==
    IF cs = <<>> THEN [found |-> FALSE, pos |-> 0]
    ELSE IF str_find(Head(cs), c) # -1
    THEN [found |-> TRUE, pos |-> acc + str_find(Head(cs), c)]
    ELSE find_loop(Tail(cs), c, acc + Len(Head(cs)))

\* SyntaxText::find
find(self, c) == find_loop(chunks(self), c, 0)

NoTextCall ==
    [op |-> "none", form |-> "none", a |-> 0, b |-> 0, c |-> "z", self |-> NoRange,
     panic |-> FALSE, found |-> FALSE, pos |-> 0]

InitText ==
    /\ IdleOutside
    /\ loc_call = "idle"
    /\ loc_out = "idle"
    /\ \E g \in TextTrees :
           \E n \in NodesOf(SyntaxNode_new(g, <<>>)) : stext = SyntaxText_new(n)
    /\ stext_out = NoTextCall

\* the record of a slice call on self and its outcome
slice_call(self, form, a, b) ==
    [NoTextCall EXCEPT !.op = "slice", !.form = form, !.a = a, !.b = b,
                       !.self = self.range, !.panic = slice(self, form, a, b).panic]

\* text.slice(TextRange::from_to(a, b))
SliceTextRange ==
    /\ ~stext_out.panic
    /\ \E a \in 0..MaxTextOffset : \E b \in a..MaxTextOffset :
           /\ stext' = slice(stext, "TextRange", a, b).text
           /\ stext_out' = slice_call(stext, "TextRange", a, b)
    /\ UNCHANGED <<loc_call, loc_out, lexvars, treevars>>

\* text.slice(a..b)
SliceRange ==
    /\ ~stext_out.panic
    /\ \E a \in 0..MaxTextOffset : \E b \in 0..MaxTextOffset :
           /\ stext' = slice(stext, "Range", a, b).text
           /\ stext_out' = slice_call(stext, "Range", a, b)
    /\ UNCHANGED <<loc_call, loc_out, lexvars, treevars>>

\* text.slice(a..)
SliceRangeFrom ==
    /\ ~stext_out.panic
    /\ \E a \in 0..MaxTextOffset :
           /\ stext' = slice(stext, "RangeFrom", a, 0).text
           /\ stext_out' = slice_call(stext, "RangeFrom", a, 0)
    /\ UNCHANGED <<loc_call, loc_out, lexvars, treevars>>

\* text.slice(..b)
SliceRangeTo ==
    /\ ~stext_out.panic
    /\ \E b \in 0..MaxTextOffset :
           /\ stext' = slice(stext, "RangeTo", 0, b).text
           /\ stext_out' = slice_call(stext, "RangeTo", 0, b)
    /\ UNCHANGED <<loc_call, loc_out, lexvars, treevars>>

Find ==
    /\ ~stext_out.panic
    /\ \E c \in FindChars :
           stext_out' = [NoTextCall EXCEPT !.op = "find", !.c = c, !.self = stext.range,
                                           !.found = find(stext, c).found,
                                           !.pos = find(stext, c).pos]
    /\ UNCHANGED <<stext, loc_call, loc_out, lexvars, treevars>>

NextText == SliceTextRange \/ SliceRange \/ SliceRangeFrom \/ SliceRangeTo \/ Find

SpecText == InitText /\ [][NextText]_vars

\* ------------------------------------------------------------------------
\* Reference definitions used to state the properties.  They describe the
\* expected token boundaries directly on the input text, without a cursor.
\* ------------------------------------------------------------------------
Min(S) == CHOOSE x \in S : \A y \in S : x <= y

RECURSIVE SumLen(_)
SumLen(tokens) ==
    IF tokens = <<>> THEN 0 ELSE Head(tokens).len + SumLen(Tail(tokens))

\* the slices dump_tokens (tests/test.rs) cuts out of txt, concatenated
RECURSIVE Covered(_, _, _)
Covered(tokens, txt, offset) ==
    IF tokens = <<>> THEN <<>>
    ELSE SubSeq(txt, offset + 1, offset + Head(tokens).len)
             \o Covered(Tail(tokens), txt, offset + Head(tokens).len)

\* a long bracket of level L made of character c starts at position p of t
IsBracketAt(t, p, c, L) ==
    /\ p >= 1
    /\ p + L + 1 <= Len(t)
    /\ t[p] = c
    /\ \A i \in 1..L : t[p + i] = "="
    /\ t[p + L + 1] = c

HasOpenerAt(t, p) == \E L \in 0..Len(t) : IsBracketAt(t, p, "[", L)
OpenerLevelAt(t, p) == CHOOSE L \in 0..Len(t) : IsBracketAt(t, p, "[", L)

\* positions at or after `from` where a closer of level L starts
CloserStarts(t, L, from) == {p \in from..Len(t) : IsBracketAt(t, p, "]", L)}
AnyCloserStarts(t, from) ==
    {p \in from..Len(t) : \E L \in 0..Len(t) : IsBracketAt(t, p, "]", L)}

\* end of a long-bracket construct whose opener starts at position p: right
\* after the first closer of the opener's level, 0 when there is none
LongEnd(t, p) ==
    LET L == OpenerLevelAt(t, p)
        S == CloserStarts(t, L, p + L + 2)
    IN  IF S = {} THEN 0 ELSE Min(S) + L + 1

StartsLongString(t) == HasOpenerAt(t, 1)
StartsComment(t) == Len(t) >= 2 /\ t[1] = "-" /\ t[2] = "-"
StartsBlockComment(t) == StartsComment(t) /\ HasOpenerAt(t, 3)
StartsLineComment(t) == StartsComment(t) /\ ~HasOpenerAt(t, 3)
StartsShortString(t) == Len(t) >= 1 /\ t[1] \in {DQ, SQ}

\* number of consecutive backslashes that end right before position p and
\* lie inside the string body (positions 2 and later)
RECURSIVE BackslashRun(_, _)
BackslashRun(t, p) ==
    IF p - 1 >= 2 /\ t[p - 1] = BS THEN 1 + BackslashRun(t, p - 1) ELSE 0

\* positions of the quotes that close the short string opened at position 1
ClosingQuotes(t) ==
    {p \in 2..Len(t) : t[p] = t[1] /\ BackslashRun(t, p) % 2 = 0}
ShortStringEnd(t) == IF ClosingQuotes(t) = {} THEN Len(t) ELSE Min(ClosingQuotes(t))

\* positions of the line terminators at or after position 3
LineTerminators(t) ==
    {p \in 3..Len(t) : t[p] = LF \/ (t[p] = CR /\ p < Len(t) /\ t[p + 1] = LF)}
LineCommentEnd(t) ==
    IF LineTerminators(t) = {} THEN Len(t) ELSE Min(LineTerminators(t)) - 1

\* the first character of t selects no branch of next_token_inner
NoScannerBranch(t) ==
    LET c == t[1]
    IN  /\ ~is_whitespace(c)
        /\ ~StartsComment(t)
        /\ ~StartsLongString(t)
        /\ ~is_ident_start(c)
        /\ ~is_dec_digit(c)
        /\ from_char(c) = "NONE"
        /\ ~(c = "~" /\ Len(t) >= 2 /\ t[2] = "=")
        /\ c \notin {DQ, SQ}

TokenPushed == Len(result') = Len(result) + 1
LastToken == result'[Len(result')]

\* ------------------------------------------------------------------------
\* C1: every token next_token returns for a non-empty text has a length of
\* at least 1 and at most the length of that text, one token per call; when
\* the first character selects no scanner branch the token is ERROR with
\* length exactly 1.
\* ------------------------------------------------------------------------
C1_Step ==
    /\ Len(result') \in {Len(result), Len(result) + 1}
    /\ TokenPushed =>
         /\ text # <<>>
         /\ SubSeq(result', 1, Len(result)) = result
         /\ LastToken.len >= 1
         /\ LastToken.len <= Len(text)
         /\ NoScannerBranch(text) => LastToken = Token("ERROR", 1)

C1_NextTokenLength == [][C1_Step]_vars

C1_Witness ==
    /\ pc = "done"
    /\ \E i \in 1..Len(result) : result[i] = Token("ERROR", 1)
    /\ \E i \in 1..Len(result) : result[i].len > 1

\* ------------------------------------------------------------------------
\* C2: the tokens of tokenize tile the input: the slices taken at the
\* running sum of the lengths, concatenated, give back the consumed part of
\* the input, and when tokenize returns the lengths sum to the length of
\* the input and the concatenation is the input (no token for empty input).
\* ------------------------------------------------------------------------
C2_Tiling ==
    /\ SumLen(result) + Len(text) = Len(input)
    /\ Covered(result, input, 0) \o text = input
    /\ pc = "done" =>
         /\ SumLen(result) = Len(input)
         /\ Covered(result, input, 0) = input
         /\ input = <<>> => result = <<>>

C2_Witness == pc = "done" /\ Len(result) >= 3 /\ SumLen(result) > Len(result)

\* ------------------------------------------------------------------------
\* C3: an input that starts with a long-bracket opener and has no closer
\* after it is tokenized, in finitely many steps, to exactly one STRING
\* token whose length is the whole input.
\* ------------------------------------------------------------------------
UnterminatedLongString(t) ==
    StartsLongString(t) /\ AnyCloserStarts(t, OpenerLevelAt(t, 1) + 3) = {}

C3_UnterminatedLongString ==
    UnterminatedLongString(input)
        => <>(pc = "done" /\ result = <<Token("STRING", Len(input))>>)

\* ------------------------------------------------------------------------
\* C4: a long string opened at level L ends right after the first closer of
\* level L; closers of other levels stay inside the token.
\* ------------------------------------------------------------------------
C4_LongStringLevel ==
    /\ (StartsLongString(input) /\ LongEnd(input, 1) # 0 /\ Len(result) >= 1)
           => result[1] = Token("STRING", LongEnd(input, 1))
    /\ (input = LongStringExample /\ pc = "done")
           => result = <<Token("STRING", Len(LongStringExample))>>

\* ------------------------------------------------------------------------
\* C5: a block comment opened at level L ends right after the first closer
\* of level L that starts at any position after the opener, also when that
\* closer overlaps or follows a closer of another level.
\* ------------------------------------------------------------------------
C5_BlockCommentEnd ==
    /\ (StartsBlockComment(input) /\ LongEnd(input, 3) # 0 /\ Len(result) >= 1)
           => result[1] = Token("COMMENT", LongEnd(input, 3))
    /\ (input = BlockCommentExample /\ pc = "done")
           => result = <<Token("COMMENT", Len(BlockCommentExample))>>
    /\ (input = OverlapCommentExample /\ pc = "done")
           => result = <<Token("COMMENT", Len(OverlapCommentExample))>>

\* ------------------------------------------------------------------------
\* C6: an unterminated short string and an unterminated block comment are
\* each tokenized, in finitely many steps, to one token (STRING, COMMENT)
\* that spans the whole input; no ERROR token appears.
\* ------------------------------------------------------------------------
UnterminatedShortString(t) == StartsShortString(t) /\ ClosingQuotes(t) = {}
UnterminatedBlockComment(t) == StartsBlockComment(t) /\ LongEnd(t, 3) = 0

C6_UnterminatedAbsorbs ==
    /\ UnterminatedShortString(input)
         => <>(pc = "done" /\ result = <<Token("STRING", Len(input))>>)
    /\ UnterminatedBlockComment(input)
         => <>(pc = "done" /\ result = <<Token("COMMENT", Len(input))>>)

C6_Witness ==
    /\ pc = "done"
    /\ UnterminatedBlockComment(input)
    /\ AnyCloserStarts(input, 3) # {}
    /\ result = <<Token("COMMENT", Len(input))>>

\* ------------------------------------------------------------------------
\* C7: a short string opened with quote q ends right after the first later
\* q preceded by an even number of consecutive backslashes (at the end of
\* input when there is none); inside the loop a backslash followed by a
\* backslash or by q is consumed with it, a backslash followed by anything
\* else is consumed alone, and every other character one at a time.
\* ------------------------------------------------------------------------
C7_Inv ==
    /\ (StartsShortString(input) /\ Len(result) >= 1)
           => result[1] = Token("STRING", ShortStringEnd(input))
    /\ (input = EscapedQuoteExample /\ pc = "done")
           => result = <<Token("STRING", 6)>>
    /\ (input = EscapedBackslashExample /\ pc = "done")
           => result = <<Token("STRING", 5)>>

C7_Step ==
    (pc = "scan_string" /\ pc' = "scan_string") =>
        len' = len + (IF current(text, len) = BS
                          /\ nth(text, len, 1) \in {BS, quote_type}
                      THEN 2 ELSE 1)

C7_ShortStringEnd == []C7_Inv /\ [][C7_Step]_vars

C7_Witness ==
    /\ pc = "done"
    /\ StartsShortString(input)
    /\ \E p \in 2..Len(input) : input[p] = input[1] /\ BackslashRun(input, p) = 1
    /\ \E p \in 2..Len(input) : input[p] \in {DQ, SQ} /\ input[p] # input[1]
    /\ ClosingQuotes(input) # {}
    /\ result[1].len > Min({p \in 2..Len(input) : input[p] = input[1]})

\* ------------------------------------------------------------------------
\* C8: for an input that starts with '-', the first token is a COMMENT
\* exactly when the second character is '-' too, and otherwise MINUS of
\* length 1; `- - 1` gives MINUS, WHITESPACE, MINUS, WHITESPACE, NUMBER,
\* each of length 1.
\* ------------------------------------------------------------------------
C8_MinusOrComment ==
    /\ (Len(input) >= 1 /\ input[1] = "-" /\ Len(result) >= 1) =>
           IF StartsComment(input)
           THEN result[1].kind = "COMMENT"
           ELSE result[1] = Token("MINUS", 1)
    /\ (input = MinusExample /\ pc = "done") =>
           result = <<Token("MINUS", 1), Token("WHITESPACE", 1), Token("MINUS", 1),
                      Token("WHITESPACE", 1), Token("NUMBER", 1)>>

C8_Witness == pc = "done" /\ input = MinusExample /\ Len(result) = 5

\* ------------------------------------------------------------------------
\* C9: a line comment ends right before the first line terminator (LF or
\* CR LF) or at the end of input; the terminator starts the next token and
\* the comment's text contains no LF.
\* ------------------------------------------------------------------------
C9_LineCommentEnd ==
    (StartsLineComment(input) /\ Len(result) >= 1) =>
        /\ result[1] = Token("COMMENT", LineCommentEnd(input))
        /\ \A p \in 1..result[1].len : input[p] # LF
        /\ (LineTerminators(input) # {} /\ Len(result) = 1) =>
             (text # <<>> /\ text[1] \in {LF, CR})

C9_Witness ==
    /\ pc = "done"
    /\ StartsLineComment(input)
    /\ \E p \in 3..Len(input) - 1 : input[p] = CR /\ input[p + 1] = LF
    /\ result[1].len >= 3
    /\ result[2].kind = "WHITESPACE"

\* ------------------------------------------------------------------------
\* C10: for a stack-balanced sequence of builder calls, the text of the
\* root returned by finish() is the concatenation of the texts passed to
\* token() in call order, and its length is the sum of their lengths.
\* ------------------------------------------------------------------------
C10_TreeRoundTrip ==
    ~Building =>
        LET st == SyntaxText_new(RootNode(root))
        IN  /\ to_string(st) = Concat(token_calls)
            /\ SyntaxText_len(st) = Len(Concat(token_calls))

C10_Witness ==
    /\ ~Building
    /\ Len(token_calls) >= 2
    /\ Concat(token_calls) # <<>>
    /\ \E i \in 1..Len(root.green.children) : root.green.children[i].is_token
    /\ \E i \in 1..Len(root.green.children) :
          /\ ~root.green.children[i].is_token
          /\ root.green.children[i].children # <<>>

\* ------------------------------------------------------------------------
\* C11: the side-table attached by finish() holds exactly the diagnostics
\* passed to error(), each with its message and offset, as often as it was
\* passed, and nothing else; an error() call leaves the nodes and tokens
\* under construction alone.
\* ------------------------------------------------------------------------
Occurrences(seq, x) == Cardinality({i \in 1..Len(seq) : seq[i] = x})
PassedErrors ==
    [i \in 1..Len(error_calls) |->
        [kind |-> error_calls[i].message, location |-> [offset |-> error_calls[i].offset]]]

C11_Inv ==
    ~Building =>
        /\ Len(root_data(root)) = Len(error_calls)
        /\ \A i \in 1..Len(error_calls) :
             Occurrences(root_data(root), PassedErrors[i]) = Occurrences(PassedErrors, PassedErrors[i])
        /\ error_calls = <<>> => root_data(root) = <<>>

C11_Step ==
    /\ error_calls' # error_calls => UNCHANGED <<b_parents, b_children, token_calls>>
    /\ (Building /\ ~Building') => root'.green = b_children[1]

C11_ErrorsSideTable == []C11_Inv /\ [][C11_Step]_vars

C11_Witness ==
    /\ ~Building
    /\ Len(error_calls) = 2
    /\ error_calls[1].message # error_calls[2].message
    /\ error_calls[1].offset > error_calls[2].offset
    /\ token_calls # <<>>

\* ------------------------------------------------------------------------
\* C12: for every AST type T and every node n of a finished tree, T::cast(n)
\* is some value exactly when n's kind is one T accepts, and then its
\* syntax() is n itself; the typed children of a parent are exactly its
\* child nodes of an accepted kind, in child order.
\* ------------------------------------------------------------------------
C12_CastAndChildren ==
    ~Building =>
        \A n \in NodesOf(root), T \in AstTypes :
            /\ cast(T, n).some <=> n.green.kind \in AcceptedKinds(T)
            /\ cast(T, n).some => (syntax(cast(T, n)) = n /\ cast(T, n).type = T)
            /\ LET typed == ast_children(T, n)
                   expected == SelectSeq(children(n),
                                         LAMBDA el : el.green.kind \in AcceptedKinds(T))
               IN  /\ Len(typed) = Len(expected)
                   /\ \A i \in 1..Len(typed) : syntax(typed[i]) = expected[i]

C12_Witness ==
    /\ ~Building
    /\ \E n \in NodesOf(root) :
         /\ Len(children(n)) >= 2
         /\ children(n)[1].green.kind = "BLOCK"
         /\ children(n)[2].green.kind = "CHUNK"
         /\ Len(ast_children("Chunk", n)) = 1

\* ------------------------------------------------------------------------
\* C13: add_offset(D, E) turns Offset(N) into Offset(N + D - E) and
\* Range(s, e) into Range(s + D - E, e + D - E), for every pair of u32
\* deltas.  (As stated; refuted where N + D - E or an intermediate value is
\* not a u32.)
\* ------------------------------------------------------------------------
Shifted(loc, D, E) ==
    IF loc.tag = "Range"
    THEN Range(Minus(Plus(loc.start, D), E), Minus(Plus(loc.end, D), E))
    ELSE Offset(Minus(Plus(loc.start, D), E))

C13_AddOffsetEveryDelta ==
    loc_out # NoLocation => loc_out = Shifted(loc_call.loc, loc_call.plus, loc_call.minus)

\* C13 as amended: when the intermediate sum fits a u32 and the minus
\* offset does not exceed it (Offset: N + D < 2^32 and E <= N + D; Range:
\* e + D < 2^32 and E <= s + D) the result is the shifted location, of the
\* same length, in every build; otherwise a build with overflow checks
\* panics and a build without them wraps an Offset modulo 2^32.  The
\* receiver is never modified.
FitsU32(loc, D, E) == IsU32(Plus(loc.end, D)) /\ Leq(E, Plus(loc.start, D))

C13_Inv ==
    loc_out # NoLocation =>
        LET fits == FitsU32(loc_call.loc, loc_call.plus, loc_call.minus)
            shifted == Shifted(loc_call.loc, loc_call.plus, loc_call.minus)
        IN  /\ fits =>
                /\ loc_out = shifted
                /\ Minus(loc_out.end, loc_out.start)
                       = Minus(loc_call.loc.end, loc_call.loc.start)
            /\ (~fits /\ loc_call.build = "overflow-checks") => loc_out = LocPanic
            /\ (loc_call.build = "wrapping" /\ loc_call.loc.tag = "Offset") =>
                   loc_out = Offset(Wrap(shifted.start))

C13_AddOffsetInRange == []C13_Inv /\ [][loc_call' = loc_call]_vars

C13_Witness ==
    /\ loc_out.tag = "Range"
    /\ loc_call.plus # Zero
    /\ ~Leq(loc_call.minus, loc_call.loc.start)
    /\ loc_out.end # loc_out.start
    /\ loc_out.start # loc_call.loc.start

\* ------------------------------------------------------------------------
\* C14: SyntaxText::slice panics for every slice form whenever the range
\* is not fully inside the text's own range (a partly overlapping range is
\* not clamped), and a range fully inside yields a text of exactly the
\* requested range.
\* ------------------------------------------------------------------------
Requested(call) ==
    CASE call.form = "RangeFrom" -> TextRange(call.a, call.self.end)
      [] call.form = "RangeTo" -> TextRange(call.self.start, call.b)
      [] OTHER -> TextRange(call.a, call.b)

FullyInside(call) ==
    /\ call.self.start <= Requested(call).start
    /\ Requested(call).start <= Requested(call).end
    /\ Requested(call).end <= call.self.end

C14_SliceOutsidePanics ==
    stext_out.op = "slice" =>
        IF FullyInside(stext_out)
        THEN ~stext_out.panic /\ stext.range = Requested(stext_out)
        ELSE stext_out.panic

\* ------------------------------------------------------------------------
\* C15: SyntaxText::find(c) returns the absolute offset, in the tree's text
\* coordinates, of the first occurrence of c within the view, and none
\* when c does not occur, also for nodes that do not start at offset 0 and
\* for sliced texts.
\* ------------------------------------------------------------------------
RECURSIVE GreenText(_)
RECURSIVE GreenTextAll(_)
GreenText(el) == IF el.is_token THEN el.text ELSE GreenTextAll(el.children)
GreenTextAll(els) ==
    IF els = <<>> THEN <<>> ELSE GreenText(Head(els)) \o GreenTextAll(Tail(els))

\* the character of the tree's text at absolute offset p of a view's node
CharAt(st, p) == GreenText(st.node.green)[p - st.node.range.start + 1]
Occurs(st, c) == {p \in st.range.start..(st.range.end - 1) : CharAt(st, p) = c}

C15_FindAbsolute ==
    stext_out.op = "find" =>
        IF Occurs(stext, stext_out.c) = {}
        THEN ~stext_out.found
        ELSE /\ stext_out.found
             /\ stext_out.pos \in Occurs(stext, stext_out.c)
             /\ \A p \in Occurs(stext, stext_out.c) : stext_out.pos <= p

\* ------------------------------------------------------------------------
\* C16: the diagnostic list attached to the root of a finished tree is
\* sorted by non-decreasing offset, whatever the order of the error()
\* calls.
\* ------------------------------------------------------------------------
SortedByOffset(errors) ==
    \A i \in 1..Len(errors) : \A j \in i..Len(errors) :
        offset_of(errors[i]) <= offset_of(errors[j])

C16_RootDataSorted == ~Building => SortedByOffset(root_data(root))

\* ------------------------------------------------------------------------
\* C17: for every node of a finished tree, debug_dump prints exactly one
\* err line per diagnostic of the root's side-table, in non-decreasing
\* offset order, each right after the first token of the dump whose end is
\* at or past the diagnostic's offset (behind the diagnostics printed there
\* before it), or after the whole walk when there is no such token; CHUNK
\* nodes and nodes below a CHUNK are no exception.
\* ------------------------------------------------------------------------
ErrorsPrinted(lines) ==
    LET errs == SelectSeq(lines, LAMBDA l : l.line = "err")
    IN  [i \in 1..Len(errs) |-> errs[i].error]

\* the err line at index i of lines is placed as the claim says
PlacedAfterFirstToken(lines, i) ==
    LET due == {j \in 1..Len(lines) :
                   lines[j].line = "token" /\ lines[j].range.end >= offset_of(lines[i].error)}
    IN  IF due = {}
        THEN \A j \in (i + 1)..Len(lines) : lines[j].line = "err"
        ELSE \E f \in due :
                 /\ \A j \in due : f <= j
                 /\ f < i
                 /\ \A j \in (f + 1)..(i - 1) : lines[j].line = "err"

DumpAsClaimed(r, lines) ==
    /\ Len(ErrorsPrinted(lines)) = Len(root_data(r))
    /\ \A i \in 1..Len(root_data(r)) :
           Occurrences(ErrorsPrinted(lines), root_data(r)[i])
               = Occurrences(root_data(r), root_data(r)[i])
    /\ SortedByOffset(ErrorsPrinted(lines))
    /\ \A i \in 1..Len(lines) : lines[i].line = "err" => PlacedAfterFirstToken(lines, i)

C17_DumpErrLines ==
    ~Building => \A path \in ancestors(root) : DumpAsClaimed(root, debug_dump(root, path))

====
